---- MODULE Spec2Model ----
(***************************************************************************)
(* The screenshot-to-note pipeline of ojpg_bot: the three bot programs     *)
(* (telegram_bot.py: Yandex Vision OCR with rule-based structuring;        *)
(* telegram_bot_google.py: Google Vision with keyword heuristics;          *)
(* telegram_bot_open_ai.py: OpenAI vision returning the structured note)   *)
(* as one state machine.  A bot process runs one variant, chosen at start. *)
(*                                                                         *)
(* Texts are TLA+ strings over ASCII.  The sources' emoji are left out of  *)
(* the message texts, the Cyrillic keywords of the heuristic tables can    *)
(* never occur in an ASCII text and are left out, and the Markdown fence   *)
(* character (the backquote) is written "~".  The calls of the Telegram    *)
(* API (sending and editing messages, downloading the file) are taken to   *)
(* succeed: the messaging surface is outside the pipeline.                 *)
(***************************************************************************)
EXTENDS Integers, Sequences, FiniteSets, TLC

\* ---------------------------------------------------------------- bounds
MaxRuns == 2
MaxUsers == 2
MaxBytes == 2
MaxClock == 1

Runs == 1..MaxRuns
Users == 1..MaxUsers
\* The contents of the files, told apart by their number of bytes: 0 is the
\* file without bytes.
Bytes == 0..MaxBytes

Variants == {"yandex", "google", "openai"}

\* ------------------------------------------------------------ the state
VARIABLES
    variant,        \* the bot program this process runs
    clock,          \* datetime.now(), in whole seconds
    pc,             \* pc[r]: where run r's handler is
    req,            \* req[r]: the update run r handles (handler, user_id, data)
    local,          \* local[r]: the handler's local variables
    log,            \* log[r]: the messages sent and the capability calls made, in order
    storage,        \* the objects of the storage bucket "screenshots"
    notes,          \* the rows of table notes, in insertion order
    note_tags,      \* the rows of table note_tags (AI variant)
    user_settings,  \* the rows of table user_settings (AI variant)
    call            \* a call of one of the pure functions, outside the handlers

vars == <<variant, clock, pc, req, local, log, storage, notes, note_tags, user_settings,
          call>>

\* ------------------------------------------------------- string helpers
\* The one-character string at position i of s.
CharAt(s, i) == SubSeq(s, i, i)

\* str.startswith
StartsWith(s, p) == Len(s) >= Len(p) /\ SubSeq(s, 1, Len(p)) = p

\* Python's whitespace test for the characters of the model's alphabet.
IsSpace(c) == c \in {" ", "\n", "\t"}

RECURSIVE LStrip(_)
LStrip(s) ==
    IF Len(s) > 0 /\ IsSpace(CharAt(s, 1)) THEN LStrip(SubSeq(s, 2, Len(s))) ELSE s

RECURSIVE RStrip(_)
RStrip(s) ==
    IF Len(s) > 0 /\ IsSpace(CharAt(s, Len(s))) THEN RStrip(SubSeq(s, 1, Len(s) - 1)) ELSE s

\* str.strip()
Strip(s) == RStrip(LStrip(s))

\* Python slicing s[a:], s[:b] and s[a:-b] for a, b >= 0.
SliceFrom(s, a) == IF a >= Len(s) THEN "" ELSE SubSeq(s, a + 1, Len(s))
SliceTo(s, b) == IF b >= Len(s) THEN s ELSE SubSeq(s, 1, b)
SliceMid(s, a, b) == IF Len(s) - b <= a THEN "" ELSE SubSeq(s, a + 1, Len(s) - b)

\* `p in s` for strings.
Contains(s, p) ==
    \E i \in 1..(Len(s) - Len(p) + 1) : SubSeq(s, i, i + Len(p) - 1) = p

Upper == <<"A","B","C","D","E","F","G","H","I","J","K","L","M",
           "N","O","P","Q","R","S","T","U","V","W","X","Y","Z">>
Lower == <<"a","b","c","d","e","f","g","h","i","j","k","l","m",
           "n","o","p","q","r","s","t","u","v","w","x","y","z">>
Digits == {"0","1","2","3","4","5","6","7","8","9"}

LowerChar(c) ==
    IF \E i \in 1..26 : Upper[i] = c THEN Lower[CHOOSE i \in 1..26 : Upper[i] = c] ELSE c

\* str.lower()
RECURSIVE LowerRange(_, _, _)
LowerRange(s, lo, hi) ==
    IF lo > hi THEN ""
    ELSE IF lo = hi THEN LowerChar(CharAt(s, lo))
    ELSE LET mid == (lo + hi) \div 2
         IN  LowerRange(s, lo, mid) \o LowerRange(s, mid + 1, hi)

ToLower(s) == LowerRange(s, 1, Len(s))

\* The regular expression class \w on ASCII.
IsWordChar(c) ==
    \/ \E i \in 1..26 : Upper[i] = c \/ Lower[i] = c
    \/ c \in Digits
    \/ c = "_"

\* ", ".join(seq)
RECURSIVE Join(_, _)
Join(sep, seq) ==
    IF seq = <<>> THEN ""
    ELSE IF Len(seq) = 1 THEN seq[1]
    ELSE seq[1] \o sep \o Join(sep, Tail(seq))

\* ---------------------------------------------------------------- base64
B64Alphabet == "ABCDEFGHIJKLMNOPQRSTUVWXYZabcdefghijklmnopqrstuvwxyz0123456789+/"
B64Char(v) == CharAt(B64Alphabet, v + 1)

\* The four characters for a group of one to three bytes.
EncodeGroup(g) ==
    LET n == Len(g)
        v == g[1] * 65536 + (IF n >= 2 THEN g[2] ELSE 0) * 256 + (IF n >= 3 THEN g[3] ELSE 0)
    IN  B64Char(v \div 262144) \o B64Char((v \div 4096) % 64)
        \o (IF n >= 2 THEN B64Char((v \div 64) % 64) ELSE "=")
        \o (IF n >= 3 THEN B64Char(v % 64) ELSE "=")

\* An encoder that would stop after the first group of three bytes.
b64encode_first_group(b) ==
    IF b = <<>> THEN "" ELSE EncodeGroup(SubSeq(b, 1, IF Len(b) < 3 THEN Len(b) ELSE 3))

\* base64.b64encode(b).decode('utf-8'), b a sequence of bytes.
b64encode(b) ==
    Join("", [k \in 1..((Len(b) + 2) \div 3) |->
                 EncodeGroup(SubSeq(b, 3 * k - 2, IF 3 * k < Len(b) THEN 3 * k ELSE Len(b)))])

\* What the receiver of a base64 text reads: the bytes of each group of four
\* characters, without those the padding stands for.
B64Value(c) ==
    IF c = "=" THEN 0 ELSE (CHOOSE i \in 1..64 : CharAt(B64Alphabet, i) = c) - 1

DecodeGroup(g) ==
    LET v == B64Value(CharAt(g, 1)) * 262144 + B64Value(CharAt(g, 2)) * 4096
             + B64Value(CharAt(g, 3)) * 64 + B64Value(CharAt(g, 4))
        n == IF CharAt(g, 3) = "=" THEN 1 ELSE IF CharAt(g, 4) = "=" THEN 2 ELSE 3
    IN  SubSeq(<<v \div 65536, (v \div 256) % 256, v % 256>>, 1, n)

RECURSIVE b64decode(_)
b64decode(s) ==
    IF Len(s) < 4 THEN <<>> ELSE DecodeGroup(SubSeq(s, 1, 4)) \o b64decode(SubSeq(s, 5, Len(s)))

\* ------------------------------------- telegram_bot.py: YandexVisionOCR
\* The texts extract_text_from_image returns for its failures.
ErrTokenExpired == "Error: IAM token expired. Please refresh your token."
ErrAccessDenied == "Error: Access denied. Please check your folder permissions."
ErrOcrFailed == "Error: Failed to process image with OCR service."
ErrNetwork == "Error: Network error while processing image."
ErrInvalidResponse == "Error: Invalid response from OCR service."
ErrUnexpected == "Error: Unexpected error during text extraction."

\* The lines of the blocks of a textAnnotation with a non-empty text, in block
\* order then line order (the two nested loops).
RECURSIVE NonEmptyLines(_)
NonEmptyLines(lines) ==
    IF lines = <<>> THEN <<>>
    ELSE (IF Head(lines) # "" THEN <<Head(lines)>> ELSE <<>>) \o NonEmptyLines(Tail(lines))

RECURSIVE BlockLines(_)
BlockLines(blocks) ==
    IF blocks = <<>> THEN <<>>
    ELSE NonEmptyLines(Head(blocks)) \o BlockLines(Tail(blocks))

\* The body of the try block for a response with status 200 and a JSON body:
\* fullText first, the blocks as the fallback, "" when neither has text.
TextOfAnnotation(resp) ==
    IF ~resp.hasAnnotation THEN ""
    ELSE IF resp.fullText # "" THEN Strip(resp.fullText)
    ELSE LET combined_text == Join("\n", BlockLines(resp.blocks))
         IN  IF combined_text # "" THEN Strip(combined_text) ELSE ""

\* YandexVisionOCR.extract_text_from_image on the backend's answer resp:
\*   kind "network": requests.post raised a RequestException;
\*   kind "http": an HTTP status other than 200;
\*   kind "badjson": status 200 whose body is not JSON; response.json() raises
\*       an error that is a RequestException or only a json.JSONDecodeError,
\*       depending on the installed requests (resp.asRequestException);
\*   kind "malformed": JSON of an unexpected shape (a TypeError/AttributeError);
\*   kind "ok": JSON with or without result.textAnnotation.
extract_text_from_image(resp) ==
    CASE resp.kind = "network" -> ErrNetwork
      [] resp.kind = "http" ->
            IF resp.status = 401 THEN ErrTokenExpired
            ELSE IF resp.status = 403 THEN ErrAccessDenied
            ELSE ErrOcrFailed
      [] resp.kind = "badjson" ->
            IF resp.asRequestException THEN ErrNetwork ELSE ErrInvalidResponse
      [] resp.kind = "malformed" -> ErrUnexpected
      [] OTHER -> TextOfAnnotation(resp)

\* ----------------------------------------- telegram_bot.py: NoteProcessor
DefaultMaxLength == 50

\* sentences[0] of re.split(r'[.!?\n]+', s): the text before the first
\* delimiter ("" when s starts with one).
IsSentenceEnd(c) == c \in {".", "!", "?", "\n"}

FirstSentence(s) ==
    LET ends == {i \in 1..Len(s) : IsSentenceEnd(CharAt(s, i))}
    IN  IF ends = {} THEN s
        ELSE SubSeq(s, 1, (CHOOSE i \in ends : \A j \in ends : i <= j) - 1)

\* re.sub(r'\s+', ' ', s)
\* What the substitution leaves of the character at i: a run of whitespace
\* becomes one space, written at the run's first character.
CollapseChar(s, i) ==
    IF ~IsSpace(CharAt(s, i)) THEN CharAt(s, i)
    ELSE IF i > 1 /\ IsSpace(CharAt(s, i - 1)) THEN "" ELSE " "

RECURSIVE CollapseRange(_, _, _)
CollapseRange(s, lo, hi) ==
    IF lo > hi THEN ""
    ELSE IF lo = hi THEN CollapseChar(s, lo)
    ELSE LET mid == (lo + hi) \div 2
         IN  CollapseRange(s, lo, mid) \o CollapseRange(s, mid + 1, hi)

CollapseSpaces(s) == CollapseRange(s, 1, Len(s))

\* title[:k] for an integer k of either sign.
PyPrefix(s, k) ==
    IF k >= 0 THEN SliceTo(s, k)
    ELSE IF Len(s) + k <= 0 THEN "" ELSE SubSeq(s, 1, Len(s) + k)

generate_title(content, max_length) ==
    IF content = "" \/ StartsWith(content, "Error:") THEN "Untitled Screenshot"
    ELSE LET first_sentence == Strip(FirstSentence(Strip(content)))
             collapsed == CollapseSpaces(first_sentence)
             title == IF Len(collapsed) > max_length
                      THEN PyPrefix(collapsed, max_length - 3) \o "..."
                      ELSE collapsed
         IN  IF title # "" THEN title ELSE "Screenshot Note"

\* tag_patterns, in the order of the dict.
tag_patterns == <<
    [tag |-> "email",    patterns |-> {"email", "@", "mail", "inbox"}],
    [tag |-> "auth",     patterns |-> {"password", "login", "auth", "signin", "signup"}],
    [tag |-> "code",     patterns |-> {"code", "programming", "function", "class", "def ",
                                       "var ", "const ", "{", "}"}],
    [tag |-> "meeting",  patterns |-> {"meeting", "call", "zoom", "teams", "conference"}],
    [tag |-> "todo",     patterns |-> {"todo", "task", "deadline", "checklist"}],
    [tag |-> "finance",  patterns |-> {"invoice", "payment", "bill", "$", "price", "cost"}],
    [tag |-> "error",    patterns |-> {"error", "exception", "bug", "failed", "warning"}],
    [tag |-> "document", patterns |-> {"document", "report", "pdf", "doc", "file"}],
    [tag |-> "web",      patterns |-> {"http", "www", "url", "website", "browser"}],
    [tag |-> "mobile",   patterns |-> {"phone", "mobile", "app", "android", "ios"}],
    [tag |-> "social",   patterns |-> {"facebook", "twitter", "instagram", "telegram",
                                       "whatsapp"}],
    [tag |-> "date",     patterns |-> {"today", "tomorrow", "yesterday", "2024", "2025",
                                       "january", "february"}] >>

\* The categories of a rule table with a keyword occurring in content_lower.
MatchedTags(table, content_lower) ==
    { table[i].tag : i \in { j \in 1..Len(table) :
                             \E p \in table[j].patterns : Contains(content_lower, p) } }

\* The longest run of \w characters of s starting at position i.
RECURSIVE WordAt(_, _)
WordAt(s, i) ==
    IF i <= Len(s) /\ IsWordChar(CharAt(s, i)) THEN CharAt(s, i) \o WordAt(s, i + 1) ELSE ""

\* The hashtags as they are written, without the lowercasing.
HashTagsVerbatim(content) ==
    { WordAt(content, i + 1) :
        i \in { j \in 1..Len(content) : CharAt(content, j) = "#" /\ WordAt(content, j + 1) # "" } }

\* re.findall(r'#\w+', content), each match without its '#' and lowercased.
HashTags(content) ==
    { ToLower(WordAt(content, i + 1)) :
        i \in { j \in 1..Len(content) : CharAt(content, j) = "#" /\ WordAt(content, j + 1) # "" } }

\* An extract_tags that would remember that it was called before.
extract_tags_remembering(content) ==
    IF content = "" \/ StartsWith(content, "Error:") THEN {}
    ELSE MatchedTags(tag_patterns, ToLower(content)) \cup HashTags(content)
         \cup (IF call.returned THEN {"seen"} ELSE {})

\* An extract_tags that would look for the keywords in the text as written.
extract_tags_case_sensitive(content) ==
    IF content = "" \/ StartsWith(content, "Error:") THEN {}
    ELSE MatchedTags(tag_patterns, content) \cup HashTags(content)

\* extract_tags returns list(set(tags)): a list in no particular order, without
\* duplicates; the model keeps the set.
extract_tags(content) ==
    IF content = "" \/ StartsWith(content, "Error:") THEN {}
    ELSE MatchedTags(tag_patterns, ToLower(content)) \cup HashTags(content)

\* ------------------------------------ telegram_bot_google.py: NotesBot
\* What the Vision client answered: kind "error" (text_detection raised, for
\* an expired credential, a network failure or anything else), or kind "ok"
\* with the descriptions of response.text_annotations.
google_extract_text_from_image(resp) ==
    IF resp.kind = "error" THEN ""
    ELSE IF resp.annotations # <<>> THEN resp.annotations[1] ELSE ""

DefaultTitle == "Skrinshot"
TitleWordLimit == 3
TitleLengthLimit == 30

\* topics, in the order of the dict, with the ASCII keywords of each.
topics == <<
    [tag |-> "ACID",        patterns |-> {"acid", "consistency", "isolation"}],
    [tag |-> "Baza dannyh", patterns |-> {"database", "sql"}],
    [tag |-> "Kod",         patterns |-> {"def ", "function", "import", "class "}],
    [tag |-> "Nastroiki",   patterns |-> {"settings"}],
    [tag |-> "Oshibka",     patterns |-> {"error", "exception", "failed"}],
    [tag |-> "Urok",        patterns |-> {"tutorial"}],
    [tag |-> "Chat",        patterns |-> {"message"}],
    [tag |-> "Dokument",    patterns |-> {"document"}],
    [tag |-> "Sait",        patterns |-> {"http", "www", "website"}],
    [tag |-> "Dengi",       patterns |-> {"$"}] >>

\* text.split('\n')[0]
FirstLine(s) ==
    LET ends == {i \in 1..Len(s) : CharAt(s, i) = "\n"}
    IN  IF ends = {} THEN s
        ELSE SubSeq(s, 1, (CHOOSE i \in ends : \A j \in ends : i <= j) - 1)

\* The first word of a string that starts with a non-space character.
LeadingWord(s) ==
    LET ends == {i \in 1..Len(s) : IsSpace(CharAt(s, i))}
    IN  IF ends = {} THEN s
        ELSE SubSeq(s, 1, (CHOOSE i \in ends : \A j \in ends : i <= j) - 1)

\* str.split(): the words between runs of whitespace.
RECURSIVE Words(_)
Words(s) ==
    LET t == LStrip(s)
    IN  IF t = "" THEN <<>>
        ELSE LET w == LeadingWord(t) IN <<w>> \o Words(SliceFrom(t, Len(w)))

generate_title_from_text(text) ==
    IF text = "" THEN DefaultTitle
    ELSE LET text_lower == ToLower(text)
             hits == { j \in 1..Len(topics) :
                         \E p \in topics[j].patterns : Contains(text_lower, p) }
         IN  IF hits # {} THEN topics[CHOOSE j \in hits : \A k \in hits : j <= k].tag
             ELSE LET all_words == Words(Strip(FirstLine(text)))
                      words == SubSeq(all_words, 1,
                                      IF Len(all_words) < TitleWordLimit
                                      THEN Len(all_words) ELSE TitleWordLimit)
                      title == Join(" ", words)
                  IN  IF words # <<>>
                      THEN (IF Len(title) <= TitleLengthLimit THEN title ELSE words[1])
                      ELSE DefaultTitle

\* tag_keywords, with the ASCII keywords of each tag.
tag_keywords == <<
    [tag |-> "code",      patterns |-> {"def ", "function", "import", "class "}],
    [tag |-> "database",  patterns |-> {"database", "sql", "acid"}],
    [tag |-> "email",     patterns |-> {"@", "email"}],
    [tag |-> "web",       patterns |-> {"http", "www", "website"}],
    [tag |-> "document",  patterns |-> {"document"}],
    [tag |-> "chat",      patterns |-> {"message"}],
    [tag |-> "settings",  patterns |-> {"settings"}],
    [tag |-> "error",     patterns |-> {"error", "exception", "failed"}],
    [tag |-> "tutorial",  patterns |-> {"tutorial"}],
    [tag |-> "financial", patterns |-> {"$"}] >>

generate_tags_from_text(text) ==
    IF text = "" THEN {"screenshot"}
    ELSE {"screenshot"} \cup MatchedTags(tag_keywords, ToLower(text))

\* --------------------------------- telegram_bot_open_ai.py: the analysis
\* JSON values: what json.loads returns.
JNull == [t |-> "null"]
JStr(x) == [t |-> "str", s |-> x]
JList(xs) == [t |-> "list", items |-> xs]
JDict(fs) == [t |-> "dict", fields |-> fs]
JInvalid == [t |-> "invalid"]

\* Python's None for the values that are URLs or rows otherwise.
None == [none |-> TRUE]

\* The JSON documents the backend answers with in this model, each with the
\* value json.loads gives for it; every other text is not JSON.
JsonDocuments == <<
    [text  |-> "{\"title\": \"Invoice 4521\", \"tags\": [\"finance\", \"date\"], \"content\": \"Invoice #4521 Total: $120.00\"}",
     value |-> JDict([title |-> JStr("Invoice 4521"),
                      tags |-> JList(<<JStr("finance"), JStr("date")>>),
                      content |-> JStr("Invoice #4521 Total: $120.00")])],
    [text  |-> "{\"title\": \"Blank image\", \"tags\": [], \"content\": \"\"}",
     value |-> JDict([title |-> JStr("Blank image"), tags |-> JList(<<>>),
                      content |-> JStr("")])],
    [text  |-> "{\"title\": \"Spaces\", \"tags\": [\"blank\"], \"content\": \" \"}",
     value |-> JDict([title |-> JStr("Spaces"), tags |-> JList(<<JStr("blank")>>),
                      content |-> JStr(" ")])],
    [text  |-> "{\"title\": \"Login form\", \"tags\": [\"auth\", \"auth\"], \"content\": \"Login\"}",
     value |-> JDict([title |-> JStr("Login form"),
                      tags |-> JList(<<JStr("auth"), JStr("auth")>>),
                      content |-> JStr("Login")])],
    [text  |-> "{\"title\": \"Memo\", \"content\": \"Call Bob\"}",
     value |-> JDict([title |-> JStr("Memo"), content |-> JStr("Call Bob")])],
    [text  |-> "{\"title\": \"Memo\", \"tags\": [\"todo\", null], \"content\": \"Call Bob\"}",
     value |-> JDict([title |-> JStr("Memo"), tags |-> JList(<<JStr("todo"), JNull>>),
                      content |-> JStr("Call Bob")])],
    [text  |-> "{\"title\": \"\", \"tags\": [\"Misc\"], \"content\": \"Hello\"}",
     value |-> JDict([title |-> JStr(""), tags |-> JList(<<JStr("Misc")>>),
                      content |-> JStr("Hello")])],
    [text  |-> "{\"title\": \"Trip\", \"tags\": [\"travel\", \"hotel\", \"flight\", \"visa\"], \"content\": \"Booking\"}",
     value |-> JDict([title |-> JStr("Trip"),
                      tags |-> JList(<<JStr("travel"), JStr("hotel"), JStr("flight"),
                                       JStr("visa")>>),
                      content |-> JStr("Booking")])],
    [text  |-> "{\"title\": \"Reminder\", \"tags\": [\" urgent \", \"\"], \"content\": \"Pay rent\"}",
     value |-> JDict([title |-> JStr("Reminder"),
                      tags |-> JList(<<JStr(" urgent "), JStr("")>>),
                      content |-> JStr("Pay rent")])],
    [text  |-> "{\"tags\": [\"todo\"]}",
     value |-> JDict([tags |-> JList(<<JStr("todo")>>)])],
    [text  |-> "{}", value |-> JDict(<<>>)],
    [text  |-> "null", value |-> JNull] >>

\* json.loads: the value, or JInvalid for the JSONDecodeError.
json_loads(text) ==
    IF \E i \in 1..Len(JsonDocuments) : JsonDocuments[i].text = text
    THEN JsonDocuments[CHOOSE i \in 1..Len(JsonDocuments) : JsonDocuments[i].text = text].value
    ELSE JInvalid

FenceJson == "~~~json"
Fence == "~~~"

\* The image of the request: f"data:image/jpeg;base64,{base64_image}".
DataUrlPrefix == "data:image/jpeg;base64,"
DataUrl(image_data) == DataUrlPrefix \o b64encode(image_data)

\* A clean-up that would only strip the whitespace around the reply.
StripFenceNone(reply) == Strip(reply)

\* The clean-up of the reply before json.loads.
StripFence(reply) ==
    LET content == Strip(reply)
    IN  IF StartsWith(content, FenceJson)
        THEN Strip(SliceMid(content, Len(FenceJson), Len(Fence)))
        ELSE IF StartsWith(content, Fence)
        THEN Strip(SliceMid(content, Len(Fence), Len(Fence)))
        ELSE content

\* analyze_image_with_openai on the backend's answer: kind "error" (the call
\* raised: credentials, network, no choices) or kind "ok" with the reply text.
\* The result is the parsed value, or JNull for None.
analyze_image_with_openai(resp) ==
    IF resp.kind = "error" THEN JNull
    ELSE LET v == json_loads(StripFence(resp.reply))
         IN  IF v = JInvalid THEN JNull ELSE v

\* Python truth of a JSON value.
Truthy(v) ==
    CASE v.t = "null" -> FALSE
      [] v.t = "str"  -> v.s # ""
      [] v.t = "list" -> v.items # <<>>
      [] v.t = "dict" -> DOMAIN v.fields # {}
      [] OTHER -> FALSE

HasKey(v, k) == v.t = "dict" /\ k \in DOMAIN v.fields

\* note_data.get("tags")
GetTags(v) == IF HasKey(v, "tags") THEN v.fields.tags ELSE JNull

\* ------------------------------------------------- the initial state
NoReq == [handler |-> "", user_id |-> 0, data |-> 0, mime |-> ""]
NoCall == [fn |-> "", args |-> <<>>, returned |-> FALSE, result |-> "", again |-> <<>>]
NoLocal == [extracted_text |-> "", title |-> "", tags |-> {}, filename |-> <<>>,
            image_url |-> None, analysis_result |-> JNull, user_lang |-> "",
            cause |-> "", reply |-> "", listed |-> <<>>, seen |-> 0,
            ocr_kind |-> "", language |-> "", found |-> FALSE, set_ok |-> FALSE]

Init ==
    /\ variant \in Variants
    /\ clock = 0
    /\ pc = [r \in Runs |-> "idle"]
    /\ req = [r \in Runs |-> NoReq]
    /\ local = [r \in Runs |-> NoLocal]
    /\ log = [r \in Runs |-> <<>>]
    /\ storage = {}
    /\ notes = <<>>
    /\ note_tags = {}
    /\ user_settings = {}
    /\ call = NoCall

\* A message to the user: op "reply" sends a new message, op "edit" edits the
\* status message processing_msg.  text is the fixed text and args the values
\* formatted into it.
Say(op, text, args) == [k |-> "msg", a |-> op, text |-> text, args |-> args]
\* A call of a capability, logged when it returned: text is "ok" or "fail" (for
\* "extract": whether the handler went on with the result), args what was passed.
Call(cap, ok, args) ==
    [k |-> "call", a |-> cap, text |-> IF ok THEN "ok" ELSE "fail", args |-> args]

\* get_public_url(filename)
PublicUrl(filename) == [url |-> filename]

\* The storage bucket rejects an upload to a name that exists (no upsert
\* option is passed): the call raises and upload_image returns None.
NameTaken(filename) == \E o \in storage : o.name = filename

\* Runs are taken in the order of their identifiers.
MayStart(r) == pc[r] = "idle" /\ \A q \in Runs : q < r => pc[q] # "idle"

\* telebot runs its handlers on worker threads: runs interleave.  The
\* python-telegram-bot Application of the other two programs is built without
\* concurrent_updates: an update is handled after the previous one is done.
Sequential == variant \in {"google", "openai"}
NoOtherRunActive(r) == \A q \in Runs \ {r} : pc[q] \in {"idle", "done"}

\* The bytes of the file with d as its content: 2 * d bytes.
FileBytes(d) == [i \in 1..(2 * d) |-> (137 * i + 80 * d) % 256]

\* The bytes run r's handler downloaded (downloaded_file, image_data).
Downloaded(r) == FileBytes(req[r].data)

\* One second passes.
Tick ==
    /\ clock < MaxClock
    /\ \E r \in Runs : pc[r] # "done"
    /\ clock' = clock + 1
    /\ UNCHANGED <<call, variant, pc, req, local, log, storage, notes, note_tags, user_settings>>

\* ----------------------------------- telegram_bot.py: the handlers
PreviewLength == 300

MsgProcessingPhoto == "Processing your screenshot..."
MsgExtractingPhoto == "Extracting text with Yandex Vision OCR..."
MsgNoTextPhoto == "Could not extract text from the image. Please try with a clearer screenshot."
MsgGenerating == "Generating note..."
MsgCreatedPhoto == "Note Created Successfully!"
MsgSaveErrorPhoto == "Error saving note to database. Please try again."
MsgProcessingPdf == "Processing your PDF..."
MsgExtractingPdf == "Extracting text from PDF..."
MsgNoTextPdf == "Could not extract text from the PDF."
MsgCreatedPdf == "PDF Note Created Successfully!"
MsgOnlyPdf == "I can only process PDF documents. Please send an image or PDF file."

\* The texts the OCR backend finds in the images of the model.
SampleTexts == {"Invoice #4521\nTotal: $120.00\nDue 2025-01-15",
                "Bug in #auth module, see #todo",
                "Error: disk full"}

\* The answers of the OCR backend.
OcrResponses ==
    {[kind |-> "network"], [kind |-> "malformed"]}
    \cup {[kind |-> "http", status |-> st] : st \in {401, 403, 500}}
    \cup {[kind |-> "badjson", asRequestException |-> b] : b \in BOOLEAN}
    \cup {[kind |-> "ok", hasAnnotation |-> FALSE, fullText |-> "", blocks |-> <<>>]}
    \cup {[kind |-> "ok", hasAnnotation |-> TRUE, fullText |-> t, blocks |-> <<>>] :
             t \in SampleTexts \cup {"", " \n"}}
    \cup {[kind |-> "ok", hasAnnotation |-> TRUE, fullText |-> "",
           blocks |-> << <<"Meeting at 10", "">>, <<" call Bob ">> >>]}

\* handle_photo up to the OCR call: the status message is sent, the file is
\* downloaded, and the status message announces the extraction.
handle_photo_receive(r) ==
    /\ variant = "yandex"
    /\ MayStart(r)
    /\ \E u \in Users, d \in Bytes :
          req' = [req EXCEPT ![r] = [handler |-> "photo", user_id |-> u, data |-> d,
                                     mime |-> "image/jpeg"]]
    /\ log' = [log EXCEPT ![r] = << Say("reply", MsgProcessingPhoto, <<>>),
                                    Say("edit", MsgExtractingPhoto, <<>>) >>]
    /\ pc' = [pc EXCEPT ![r] = "extract"]
    /\ UNCHANGED <<call, variant, clock, local, storage, notes, note_tags, user_settings>>

\* handle_document up to the OCR call, or its refusal of another MIME type.
handle_document_receive(r) ==
    /\ variant = "yandex"
    /\ MayStart(r)
    /\ \E u \in Users, d \in Bytes, mime \in {"application/pdf", "text/plain"} :
          /\ req' = [req EXCEPT ![r] = [handler |-> "document", user_id |-> u, data |-> d,
                                        mime |-> mime]]
          /\ IF mime = "application/pdf"
             THEN /\ log' = [log EXCEPT ![r] = << Say("reply", MsgProcessingPdf, <<>>),
                                                  Say("edit", MsgExtractingPdf, <<>>) >>]
                  /\ pc' = [pc EXCEPT ![r] = "extract"]
             ELSE /\ log' = [log EXCEPT ![r] = << Say("reply", MsgOnlyPdf, <<>>) >>]
                  /\ pc' = [pc EXCEPT ![r] = "done"]
    /\ UNCHANGED <<call, variant, clock, local, storage, notes, note_tags, user_settings>>

\* Why the backend gave no text, for the three causes the caller is to tell
\* apart: expired credentials (HTTP 401), a network failure, an answer
\* without text.  It is recorded with the run, and decides nothing.
OcrCause(resp) ==
    CASE resp.kind = "http" /\ resp.status = 401 -> "auth"
      [] resp.kind = "network" -> "network"
      [] resp.kind = "ok" /\ TextOfAnnotation(resp) = "" -> "no_text"
      [] OTHER -> "other"

\* What handle_photo does with the OCR result: the messages it sends and
\* whether the run goes on.
PhotoAfterExtract(extracted_text) ==
    IF extracted_text = ""
    THEN [go |-> FALSE, say |-> << Say("edit", MsgNoTextPhoto, <<>>) >>]
    ELSE IF StartsWith(extracted_text, "Error:")
    THEN [go |-> FALSE, say |-> << Say("edit", extracted_text, <<>>) >>]
    ELSE [go |-> TRUE, say |-> << Say("edit", MsgGenerating, <<>>) >>]

\* The same for handle_document.
DocumentAfterExtract(extracted_text) ==
    IF extracted_text = "" \/ StartsWith(extracted_text, "Error:")
    THEN [go |-> FALSE, say |-> << Say("edit", MsgNoTextPdf, <<>>) >>]
    ELSE [go |-> TRUE, say |-> <<>>]

\* The OCR call, the check of its result, and the structuring of the note.
yandex_extract(r) ==
    /\ variant = "yandex"
    /\ pc[r] = "extract"
    /\ \E resp \in OcrResponses :
          LET extracted_text == extract_text_from_image(resp)
              after == IF req[r].handler = "photo" THEN PhotoAfterExtract(extracted_text)
                       ELSE DocumentAfterExtract(extracted_text)
          IN  /\ local' = [local EXCEPT ![r].extracted_text = extracted_text,
                                        ![r].cause = OcrCause(resp),
                                        ![r].ocr_kind = resp.kind,
                                        ![r].title = IF after.go
                                                     THEN generate_title(extracted_text, DefaultMaxLength)
                                                     ELSE @,
                                        ![r].tags = IF after.go THEN extract_tags(extracted_text) ELSE @]
              /\ log' = [log EXCEPT ![r] =
                            @ \o << Call("extract", after.go, <<b64encode(Downloaded(r))>>) >> \o after.say
                              \o (IF after.go THEN << Call("structure", TRUE, <<extracted_text>>) >>
                                  ELSE <<>>)]
              /\ pc' = [pc EXCEPT ![r] = IF after.go THEN "upload" ELSE "done"]
    /\ UNCHANGED <<call, variant, clock, req, storage, notes, note_tags, user_settings>>

\* The file name of the stored object.
YandexFilename(handler, user_id, now) ==
    IF handler = "photo" THEN <<"screenshot_", user_id, "_", now, ".jpg">>
    ELSE <<"pdf_", user_id, "_", now, ".pdf">>

\* A handler that would repeat a failed upload instead of going on.
YandexAfterUploadRetry(image_url) == IF image_url = None THEN "upload" ELSE "save"

\* Where handle_photo and handle_document go after upload_image returned:
\* image_url is not looked at, the save comes next.
YandexAfterUpload(image_url) == "save"

\* SupabaseManager.upload_image: the public URL, or None when the upload failed.
yandex_upload(r) ==
    /\ variant = "yandex"
    /\ pc[r] = "upload"
    /\ \E ok \in BOOLEAN :
          LET filename == YandexFilename(req[r].handler, req[r].user_id, clock)
              stored == ok /\ ~NameTaken(filename)
              image_url == IF stored THEN PublicUrl(filename) ELSE None
          IN  /\ storage' = IF stored THEN storage \cup {[name |-> filename, data |-> Downloaded(r)]}
                            ELSE storage
              /\ local' = [local EXCEPT ![r].filename = filename, ![r].image_url = image_url]
              /\ log' = [log EXCEPT ![r] = @ \o << Call("upload", stored, <<filename, Downloaded(r)>>) >>]
              /\ pc' = [pc EXCEPT ![r] = YandexAfterUpload(image_url)]
    /\ UNCHANGED <<call, variant, clock, req, notes, note_tags, user_settings>>

\* content_preview
Preview(text, n) == IF Len(text) > n THEN SliceTo(text, n) \o "..." ELSE text

\* What handle_photo sends after save_note returned.
PhotoAfterSave(saved, l) ==
    IF saved
    THEN << Say("edit", MsgCreatedPhoto,
                <<l.title, l.tags, Preview(l.extracted_text, PreviewLength),
                  Len(l.extracted_text)>>) >>
    ELSE << Say("edit", MsgSaveErrorPhoto, <<>>) >>

\* What handle_document sends after save_note returned: `if note:` has no else.
DocumentAfterSave(saved, l) ==
    IF saved
    THEN << Say("edit", MsgCreatedPdf,
                <<l.title, l.tags, Preview(l.extracted_text, PreviewLength),
                  Len(l.extracted_text)>>) >>
    ELSE <<>>

\* A row built from fields the handlers would share: those of the first run.
NoteRowOfFirst(r) ==
    [id |-> Len(notes) + 1, user_id |-> req[1].user_id, title |-> local[1].title,
     tags |-> local[1].tags, content |-> local[1].extracted_text,
     image_url |-> local[1].image_url, run |-> r]

\* The row SupabaseManager.save_note (and save_note_to_database of the Google
\* program, which builds the same row) inserts.
NoteRow(r) ==
    [id |-> Len(notes) + 1, user_id |-> req[r].user_id, title |-> local[r].title,
     tags |-> local[r].tags, content |-> local[r].extracted_text,
     image_url |-> local[r].image_url, run |-> r]

\* SupabaseManager.save_note and the handler's answer.
yandex_save(r) ==
    /\ variant = "yandex"
    /\ pc[r] = "save"
    /\ \E saved \in BOOLEAN :
          /\ notes' = IF saved THEN Append(notes, NoteRow(r)) ELSE notes
          /\ log' = [log EXCEPT ![r] =
                        @ \o << Call("save", saved, <<NoteRow(r)>>) >>
                          \o (IF req[r].handler = "photo"
                              THEN PhotoAfterSave(saved, local[r])
                              ELSE DocumentAfterSave(saved, local[r]))]
          /\ pc' = [pc EXCEPT ![r] = "done"]
    /\ UNCHANGED <<call, variant, clock, req, local, storage, note_tags, user_settings>>

RecentLimit == 10
MsgNoNotesYet == "You don't have any notes yet. Send me a screenshot to create your first note!"
MsgRecentNotes == "Your Recent Notes:"

\* The rows of a table in the opposite order.
Reverse(seq) == [i \in 1..Len(seq) |-> seq[Len(seq) + 1 - i]]

\* select('*').eq('user_id', user_id).order('created_at', desc=True).limit(limit):
\* the rows are created in the order of their insertion.
RecentRows(user_id, limit) ==
    LET mine == Reverse(SelectSeq(notes, LAMBDA n : n.user_id = user_id))
    IN  SubSeq(mine, 1, IF Len(mine) < limit THEN Len(mine) ELSE limit)

\* SupabaseManager.get_user_notes: [] when the query raised.
get_user_notes(user_id, limit, ok) == IF ok THEN RecentRows(user_id, limit) ELSE <<>>

\* What a listing shows of its rows: the title and the tags of each.
Shown(rows) == [i \in 1..Len(rows) |-> <<rows[i].title, rows[i].tags>>]

\* show_recent_notes (the command /recent).
show_recent_notes(r) ==
    /\ variant = "yandex"
    /\ MayStart(r)
    /\ \E u \in Users, ok \in BOOLEAN :
          LET found == get_user_notes(u, RecentLimit, ok)
          IN  /\ req' = [req EXCEPT ![r] = [handler |-> "recent", user_id |-> u, data |-> 0,
                                            mime |-> ""]]
              /\ local' = [local EXCEPT ![r].listed = found, ![r].seen = Len(notes),
                                        ![r].cause = IF ok THEN "" ELSE "fetch_failed"]
              /\ log' = [log EXCEPT ![r] =
                            IF found = <<>> THEN << Say("reply", MsgNoNotesYet, <<>>) >>
                            ELSE << Say("reply", MsgRecentNotes, Shown(found)) >>]
              /\ pc' = [pc EXCEPT ![r] = "done"]
    /\ UNCHANGED <<call, variant, clock, storage, notes, note_tags, user_settings>>

\* ------------------------------- telegram_bot_google.py: the handlers
MsgAnalyzing == "Analyzing your screenshot..."
MsgNoText == "No text found in the image."
MsgUploadError == "Error uploading image."
MsgSaved == "Note saved successfully!"
MsgSaveError == "Error saving note."
MsgProcessingError == "Error processing image."

\* A serial number of 101 digits, and a text that starts with it.
TenDigits == "0123456789"
LongWord == TenDigits \o TenDigits \o TenDigits \o TenDigits \o TenDigits
            \o TenDigits \o TenDigits \o TenDigits \o TenDigits \o TenDigits \o "0"
LongWordText == LongWord \o " units in stock"

\* The answers of the Vision client; cause says why an answer has no text
\* (see OcrCause).
VisionResponses ==
    {[kind |-> "error", cause |-> c, annotations |-> <<>>] : c \in {"auth", "network"}}
    \cup {[kind |-> "ok", cause |-> "no_text", annotations |-> <<>>]}
    \cup {[kind |-> "ok", cause |-> "other", annotations |-> <<t>>] : t \in SampleTexts \cup {" \n", "Meeting at 10\ncall Bob", LongWordText}}

\* handle_photo up to the Vision call, entered for a photo or, through
\* handle_document, for a document with an image MIME type.  A document
\* message has no photo sizes: update.message.photo[-1] raises IndexError and
\* the except clause answers.
google_receive(r) ==
    /\ variant = "google"
    /\ MayStart(r)
    /\ NoOtherRunActive(r)
    /\ \E u \in Users, d \in Bytes, h \in {"photo", "document"} :
          /\ req' = [req EXCEPT ![r] = [handler |-> h, user_id |-> u, data |-> d,
                                        mime |-> IF h = "photo" THEN "image/jpeg" ELSE "image/png"]]
          /\ IF h = "photo"
             THEN /\ log' = [log EXCEPT ![r] = << Say("reply", MsgAnalyzing, <<>>) >>]
                  /\ pc' = [pc EXCEPT ![r] = "extract"]
             ELSE /\ log' = [log EXCEPT ![r] = << Say("reply", MsgAnalyzing, <<>>),
                                                  Say("edit", MsgProcessingError, <<>>) >>]
                  /\ pc' = [pc EXCEPT ![r] = "done"]
    /\ UNCHANGED <<call, variant, clock, local, storage, notes, note_tags, user_settings>>

\* What handle_photo does with the extracted text.
GoogleAfterExtract(extracted_text) ==
    IF extracted_text = ""
    THEN [go |-> FALSE, say |-> << Say("edit", MsgNoText, <<>>) >>]
    ELSE [go |-> TRUE, say |-> <<>>]

\* The Vision call, the check of its result, and the title and the tags.
google_extract(r) ==
    /\ variant = "google"
    /\ pc[r] = "extract"
    /\ \E resp \in VisionResponses :
          LET extracted_text == google_extract_text_from_image(resp)
              after == GoogleAfterExtract(extracted_text)
          IN  /\ local' = [local EXCEPT ![r].extracted_text = extracted_text,
                                        ![r].cause = resp.cause,
                                        ![r].title = IF after.go
                                                     THEN generate_title_from_text(extracted_text)
                                                     ELSE @,
                                        ![r].tags = IF after.go
                                                    THEN generate_tags_from_text(extracted_text)
                                                    ELSE @]
              /\ log' = [log EXCEPT ![r] =
                            @ \o << Call("extract", after.go, <<Downloaded(r)>>) >> \o after.say
                              \o (IF after.go THEN << Call("structure", TRUE, <<extracted_text>>) >>
                                  ELSE <<>>)]
              /\ pc' = [pc EXCEPT ![r] = IF after.go THEN "upload" ELSE "done"]
    /\ UNCHANGED <<call, variant, clock, req, storage, notes, note_tags, user_settings>>

\* The file name: uuid.uuid4() is a value no other call returns; the model
\* takes the run's identifier for it.
GoogleFilename(uuid, now) == <<"screenshot_", uuid, "_", now, ".jpg">>

\* What handle_photo does after upload_image_to_supabase returned.
GoogleAfterUpload(image_url) ==
    IF image_url = None
    THEN [next |-> "done", say |-> << Say("edit", MsgUploadError, <<>>) >>]
    ELSE [next |-> "save", say |-> <<>>]

google_upload(r) ==
    /\ variant = "google"
    /\ pc[r] = "upload"
    /\ \E ok \in BOOLEAN :
          LET filename == GoogleFilename(r, clock)
              stored == ok /\ ~NameTaken(filename)
              image_url == IF stored THEN PublicUrl(filename) ELSE None
              after == GoogleAfterUpload(image_url)
          IN  /\ storage' = IF stored THEN storage \cup {[name |-> filename, data |-> Downloaded(r)]}
                            ELSE storage
              /\ local' = [local EXCEPT ![r].filename = filename, ![r].image_url = image_url]
              /\ log' = [log EXCEPT ![r] =
                            @ \o << Call("upload", stored, <<filename, Downloaded(r)>>) >> \o after.say]
              /\ pc' = [pc EXCEPT ![r] = after.next]
    /\ UNCHANGED <<call, variant, clock, req, notes, note_tags, user_settings>>

\* What handle_photo sends after save_note_to_database returned.  The texts
\* of the model are shorter than the 4090 characters above which the content
\* is cut in the message.
GoogleAfterSave(success, l) ==
    IF success
    THEN << Say("edit", MsgSaved, <<l.title, l.tags, l.extracted_text>>) >>
    ELSE << Say("edit", MsgSaveError, <<>>) >>

google_save(r) ==
    /\ variant = "google"
    /\ pc[r] = "save"
    /\ \E success \in BOOLEAN :
          /\ notes' = IF success THEN Append(notes, NoteRow(r)) ELSE notes
          /\ log' = [log EXCEPT ![r] =
                        @ \o << Call("save", success, <<NoteRow(r)>>) >>
                          \o GoogleAfterSave(success, local[r])]
          /\ pc' = [pc EXCEPT ![r] = "done"]
    /\ UNCHANGED <<call, variant, clock, req, local, storage, note_tags, user_settings>>

\* ------------------------------ telegram_bot_open_ai.py: the handlers
\* The number of tags and the length of the title the prompt asks the
\* backend for at most.
MaxTags == 3
MaxTitleChars == 100

Languages == {"ru", "kz", "en"}
TranslationKeys == {"processing", "uploading", "analyzing", "saving", "upload_failed",
                    "analysis_failed", "save_failed", "success", "error_processing",
                    "send_image", "language_changed", "no_notes", "recent_notes",
                    "error_fetching"}
ContentPreviewLength == 1000

\* get_user_language: the stored language of the user, "ru" without a row.
get_user_language(user_id) ==
    IF \E row \in user_settings : row.user_id = user_id
    THEN (CHOOSE row \in user_settings : row.user_id = user_id).language
    ELSE "ru"

\* get_text: the entry of the translations table, which the model names by
\* its language and key (the texts of these keys differ from each other); the
\* Russian table for an unknown language, the key itself for an unknown key.
get_text(user_lang, key) ==
    IF key \in TranslationKeys
    THEN (IF user_lang \in Languages THEN user_lang ELSE "ru") \o ":" \o key
    ELSE key

\* The answers of the completion backend; cause says why the call raised.
AiResponses ==
    {[kind |-> "error", cause |-> c, reply |-> ""] : c \in {"auth", "network"}}
    \cup {[kind |-> "ok", cause |-> "other", reply |-> t] :
             t \in {JsonDocuments[i].text : i \in 1..Len(JsonDocuments)}
                   \cup {FenceJson \o "\n" \o JsonDocuments[1].text \o "\n" \o Fence,
                         Fence \o "\n" \o JsonDocuments[1].text \o "\n" \o Fence \o "\n",
                         FenceJson \o "\n" \o JsonDocuments[1].text,
                         "Sorry, I cannot read this image."}}

\* handle_image up to the upload (filters.PHOTO), or handle_non_image.
openai_receive(r) ==
    /\ variant = "openai"
    /\ MayStart(r)
    /\ NoOtherRunActive(r)
    /\ \E u \in Users, d \in Bytes, h \in {"photo", "other"} :
          LET user_lang == get_user_language(u)
          IN  /\ req' = [req EXCEPT ![r] = [handler |-> h, user_id |-> u, data |-> d,
                                            mime |-> IF h = "photo" THEN "image/jpeg"
                                                     ELSE "application/pdf"]]
              /\ local' = [local EXCEPT ![r].user_lang = user_lang]
              /\ IF h = "photo"
                 THEN /\ log' = [log EXCEPT ![r] =
                                    << Say("reply", get_text(user_lang, "processing"), <<>>),
                                       Say("edit", get_text(user_lang, "uploading"), <<>>) >>]
                      /\ pc' = [pc EXCEPT ![r] = "upload"]
                 ELSE /\ log' = [log EXCEPT ![r] =
                                    << Say("reply", get_text(user_lang, "send_image"), <<>>) >>]
                      /\ pc' = [pc EXCEPT ![r] = "done"]
    /\ UNCHANGED <<call, variant, clock, storage, notes, note_tags, user_settings>>

\* filename = f"{user_id}{timestamp}.jpg"
OpenaiFilename(user_id, now) == <<user_id, now, ".jpg">>

\* What handle_image does after upload_image_to_supabase returned.
OpenaiAfterUpload(image_url, user_lang) ==
    IF image_url = None
    THEN [next |-> "done", say |-> << Say("edit", get_text(user_lang, "upload_failed"), <<>>) >>]
    ELSE [next |-> "analyze", say |-> << Say("edit", get_text(user_lang, "analyzing"), <<>>) >>]

openai_upload(r) ==
    /\ variant = "openai"
    /\ pc[r] = "upload"
    /\ \E ok \in BOOLEAN :
          LET filename == OpenaiFilename(req[r].user_id, clock)
              stored == ok /\ ~NameTaken(filename)
              image_url == IF stored THEN PublicUrl(filename) ELSE None
              after == OpenaiAfterUpload(image_url, local[r].user_lang)
          IN  /\ storage' = IF stored THEN storage \cup {[name |-> filename, data |-> Downloaded(r)]}
                            ELSE storage
              /\ local' = [local EXCEPT ![r].filename = filename, ![r].image_url = image_url]
              /\ log' = [log EXCEPT ![r] =
                            @ \o << Call("upload", stored, <<filename, Downloaded(r)>>) >> \o after.say]
              /\ pc' = [pc EXCEPT ![r] = after.next]
    /\ UNCHANGED <<call, variant, clock, req, notes, note_tags, user_settings>>

\* A handler that would go on to the save without the edit that announces it.
OpenaiAfterAnalysisSilent(analysis_result, user_lang) ==
    IF ~Truthy(analysis_result)
    THEN [next |-> "done", say |-> << Say("edit", get_text(user_lang, "analysis_failed"), <<>>) >>]
    ELSE [next |-> "save", say |-> <<>>]

\* What handle_image does with the analysis result.
OpenaiAfterAnalysis(analysis_result, user_lang) ==
    IF ~Truthy(analysis_result)
    THEN [next |-> "done", say |-> << Say("edit", get_text(user_lang, "analysis_failed"), <<>>) >>]
    ELSE [next |-> "save", say |-> << Say("edit", get_text(user_lang, "saving"), <<>>) >>]

\* The call of the completion backend, which extracts and structures at once.
openai_analyze(r) ==
    /\ variant = "openai"
    /\ pc[r] = "analyze"
    /\ \E resp \in AiResponses :
          LET analysis_result == analyze_image_with_openai(resp)
              after == OpenaiAfterAnalysis(analysis_result, local[r].user_lang)
          IN  /\ local' = [local EXCEPT ![r].analysis_result = analysis_result,
                                        ![r].reply = resp.reply,
                                        ![r].cause = IF resp.kind = "error" THEN resp.cause
                                                     ELSE IF ~Truthy(analysis_result) THEN "no_text"
                                                     ELSE "other"]
              /\ log' = [log EXCEPT ![r] =
                            @ \o << Call("extract", after.next = "save", <<DataUrl(Downloaded(r))>>) >> \o after.say]
              /\ pc' = [pc EXCEPT ![r] = after.next]
    /\ UNCHANGED <<call, variant, clock, req, storage, notes, note_tags, user_settings>>

\* The items of a JSON list that are strings, stripped, without the empty ones.
RECURSIVE TagData(_)
TagData(items) ==
    IF items = <<>> THEN <<>>
    ELSE (IF Strip(Head(items).s) # "" THEN <<Strip(Head(items).s)>> ELSE <<>>)
         \o TagData(Tail(items))

AllStrings(items) == \A i \in 1..Len(items) : items[i].t = "str"
HasDuplicates(seq) == \E i, j \in 1..Len(seq) : i < j /\ seq[i] = seq[j]

\* save_note_to_db: row says whether the notes row was inserted, tag_data
\* which tags were inserted into note_tags, saved what the function returns.
\*   note_ok, tags_ok: whether the database accepts the two inserts.
\*   A note_data without "title" or "content" raises before the insert; a
\*   null title or content violates NOT NULL; a tag that is no string raises
\*   in tag.strip() after the notes row is inserted; two equal tags violate
\*   the unique index idx_note_tags_unique.
save_note_to_db(note_data, note_ok, tags_ok) ==
    IF ~(HasKey(note_data, "title") /\ HasKey(note_data, "content"))
    THEN [row |-> FALSE, tag_data |-> <<>>, saved |-> FALSE]
    ELSE IF ~note_ok \/ note_data.fields.title.t # "str" \/ note_data.fields.content.t # "str"
    THEN [row |-> FALSE, tag_data |-> <<>>, saved |-> FALSE]
    ELSE LET tags == GetTags(note_data)
         IN  IF ~Truthy(tags) THEN [row |-> TRUE, tag_data |-> <<>>, saved |-> TRUE]
             ELSE IF ~AllStrings(tags.items)
             THEN [row |-> TRUE, tag_data |-> <<>>, saved |-> FALSE]
             ELSE LET tag_data == TagData(tags.items)
                  IN  IF tag_data = <<>> THEN [row |-> TRUE, tag_data |-> <<>>, saved |-> TRUE]
                      ELSE IF ~tags_ok \/ HasDuplicates(tag_data)
                      THEN [row |-> TRUE, tag_data |-> <<>>, saved |-> FALSE]
                      ELSE [row |-> TRUE, tag_data |-> tag_data, saved |-> TRUE]

\* Whether formatting the success message raises: analysis_result['tags'] of
\* a result without tags (KeyError), ', '.join of a value that is no list of
\* strings (TypeError).
FormatRaises(analysis_result) ==
    \/ ~HasKey(analysis_result, "tags")
    \/ analysis_result.fields.tags.t # "list"
    \/ ~AllStrings(analysis_result.fields.tags.items)

RECURSIVE Strings(_)
Strings(items) == IF items = <<>> THEN <<>> ELSE <<Head(items).s>> \o Strings(Tail(items))

\* What handle_image sends after save_note_to_db returned.
OpenaiAfterSave(saved, l) ==
    IF ~saved THEN << Say("edit", get_text(l.user_lang, "save_failed"), <<>>) >>
    ELSE IF FormatRaises(l.analysis_result)
    THEN << Say("edit", get_text(l.user_lang, "error_processing"), <<>>) >>
    ELSE << Say("edit", get_text(l.user_lang, "success"),
                << l.analysis_result.fields.title.s,
                   Join(", ", Strings(l.analysis_result.fields.tags.items)),
                   Preview(l.analysis_result.fields.content.s, ContentPreviewLength),
                   l.image_url >>) >>

\* set_user_language, first query: the select of the user's row.  The
\* command handlers set_language_ru, set_language_kz and set_language_en call
\* it with their language.  When the query raises, set_user_language returns
\* False and the handler, which does not look at the result, confirms.
set_user_language_select(r) ==
    /\ variant = "openai"
    /\ MayStart(r)
    /\ \E u \in Users, language \in Languages, ok \in BOOLEAN :
          /\ req' = [req EXCEPT ![r] = [handler |-> "lang", user_id |-> u, data |-> 0,
                                        mime |-> ""]]
          /\ local' = [local EXCEPT ![r].language = language,
                                    ![r].found = \E row \in user_settings : row.user_id = u,
                                    ![r].cause = IF ok THEN "" ELSE "db"]
          /\ IF ok
             THEN /\ pc' = [pc EXCEPT ![r] = "write"]
                  /\ UNCHANGED log
             ELSE /\ pc' = [pc EXCEPT ![r] = "done"]
                  /\ log' = [log EXCEPT ![r] =
                                << Say("reply", get_text(language, "language_changed"), <<>>) >>]
    /\ UNCHANGED <<call, variant, clock, storage, notes, note_tags, user_settings>>

\* What the second query of set_user_language does to the table and what the
\* function returns: the update of the row that was found, or the insert of a
\* new row, which the UNIQUE constraint on user_id refuses when the user has
\* a row by now.  ok: whether the database is reachable.
WriteLanguage(rows, found, user_id, language, ok) ==
    IF ~ok THEN [rows |-> rows, returned |-> FALSE, cause |-> "db"]
    ELSE IF found
    THEN [rows |-> {IF row.user_id = user_id THEN [row EXCEPT !.language = language] ELSE row :
                       row \in rows},
          returned |-> TRUE, cause |-> ""]
    ELSE IF \E row \in rows : row.user_id = user_id
    THEN [rows |-> rows, returned |-> FALSE, cause |-> "duplicate"]
    ELSE [rows |-> rows \cup {[user_id |-> user_id, language |-> language]},
          returned |-> TRUE, cause |-> ""]

\* set_user_language, second query, and the handler's confirmation.
set_user_language_write(r) ==
    /\ variant = "openai"
    /\ pc[r] = "write"
    /\ \E ok \in BOOLEAN :
          LET out == WriteLanguage(user_settings, local[r].found, req[r].user_id,
                                   local[r].language, ok)
          IN  /\ user_settings' = out.rows
              /\ local' = [local EXCEPT ![r].set_ok = out.returned, ![r].cause = out.cause]
    /\ log' = [log EXCEPT ![r] =
                  << Say("reply", get_text(local[r].language, "language_changed"), <<>>) >>]
    /\ pc' = [pc EXCEPT ![r] = "done"]
    /\ UNCHANGED <<call, variant, clock, req, storage, notes, note_tags>>

ListLimit == 5

\* get_note_tags: the tags of the note_tags rows of a note ([] when the query
\* raised); the database returns them in no stated order, the model keeps the set.
get_note_tags(note_id) == {row.tag : row \in {x \in note_tags : x.note_id = note_id}}

\* list_notes_command (the command /list): the recent rows of the user, each
\* with its tags read from note_tags.
list_notes_command(r) ==
    /\ variant = "openai"
    /\ MayStart(r)
    /\ NoOtherRunActive(r)
    /\ \E u \in Users, ok \in BOOLEAN :
          LET user_lang == get_user_language(u)
              rows == RecentRows(u, ListLimit)
              found == [i \in 1..Len(rows) |->
                           [rows[i] EXCEPT !.tags = get_note_tags(rows[i].id)]]
          IN  /\ req' = [req EXCEPT ![r] = [handler |-> "list", user_id |-> u, data |-> 0,
                                            mime |-> ""]]
              /\ local' = [local EXCEPT ![r].user_lang = user_lang,
                                        ![r].listed = IF ok THEN found ELSE <<>>,
                                        ![r].seen = Len(notes),
                                        ![r].cause = IF ok THEN "" ELSE "fetch_failed"]
              /\ log' = [log EXCEPT ![r] =
                            IF ~ok
                            THEN << Say("reply", get_text(user_lang, "error_fetching"), <<>>) >>
                            ELSE IF found = <<>>
                            THEN << Say("reply", get_text(user_lang, "no_notes"), <<>>) >>
                            ELSE << Say("reply", get_text(user_lang, "recent_notes"),
                                        Shown(found)) >>]
              /\ pc' = [pc EXCEPT ![r] = "done"]
    /\ UNCHANGED <<call, variant, clock, storage, notes, note_tags, user_settings>>

\* The notes row of the AI variant (the table has no tags column).
OpenaiNoteRow(r) ==
    [id |-> Len(notes) + 1, user_id |-> req[r].user_id,
     title |-> local[r].analysis_result.fields.title.s, tags |-> {},
     content |-> local[r].analysis_result.fields.content.s,
     image_url |-> local[r].image_url, run |-> r]

openai_save(r) ==
    /\ variant = "openai"
    /\ pc[r] = "save"
    /\ \E note_ok \in BOOLEAN, tags_ok \in BOOLEAN :
          LET out == save_note_to_db(local[r].analysis_result, note_ok, tags_ok)
              note_id == Len(notes) + 1
          IN  /\ notes' = IF out.row THEN Append(notes, OpenaiNoteRow(r)) ELSE notes
              /\ note_tags' = note_tags \cup
                    {[note_id |-> note_id, tag |-> out.tag_data[i]] : i \in 1..Len(out.tag_data)}
              /\ log' = [log EXCEPT ![r] =
                            @ \o << Call("save", out.saved, <<local[r].image_url>>) >>
                              \o OpenaiAfterSave(out.saved, local[r])]
              /\ pc' = [pc EXCEPT ![r] = "done"]
    /\ UNCHANGED <<call, variant, clock, req, local, storage, user_settings>>

\* ------------------------------------------------------ the specification
Next ==
    \/ Tick
    \/ \E r \in Runs : handle_photo_receive(r)
    \/ \E r \in Runs : handle_document_receive(r)
    \/ \E r \in Runs : yandex_extract(r)
    \/ \E r \in Runs : yandex_upload(r)
    \/ \E r \in Runs : yandex_save(r)
    \/ \E r \in Runs : show_recent_notes(r)
    \/ \E r \in Runs : google_receive(r)
    \/ \E r \in Runs : google_extract(r)
    \/ \E r \in Runs : google_upload(r)
    \/ \E r \in Runs : google_save(r)
    \/ \E r \in Runs : openai_receive(r)
    \/ \E r \in Runs : openai_upload(r)
    \/ \E r \in Runs : openai_analyze(r)
    \/ \E r \in Runs : openai_save(r)
    \/ \E r \in Runs : list_notes_command(r)
    \/ \E r \in Runs : NoOtherRunActive(r) /\ set_user_language_select(r)
    \/ \E r \in Runs : set_user_language_write(r)

Spec == Init /\ [][Next]_vars

\* ------------------------- set_user_language, called by several processes
\* The table user_settings is in the database of the project, which every
\* process of the bot shares.  One Application handles its updates one after
\* the other; the calls of set_user_language of different processes (two
\* instances polling with one token, as when a new deployment starts before
\* the old one has stopped) reach the database in any order.  This
\* specification has only the language commands, each run a call made by a
\* process of its own.
LangInit ==
    /\ variant = "openai"
    /\ clock = 0
    /\ pc = [r \in Runs |-> "idle"]
    /\ req = [r \in Runs |-> NoReq]
    /\ local = [r \in Runs |-> NoLocal]
    /\ log = [r \in Runs |-> <<>>]
    /\ storage = {}
    /\ notes = <<>>
    /\ note_tags = {}
    /\ user_settings \in {{}} \cup {{[user_id |-> u, language |-> l]} : u \in Users, l \in Languages}
    /\ call = NoCall

LangNext ==
    \/ \E r \in Runs : set_user_language_select(r)
    \/ \E r \in Runs : set_user_language_write(r)

LangSpec == LangInit /\ [][LangNext]_vars

\* ------------------------------------- the pure functions, called alone
\* NoteProcessor.generate_title, NoteProcessor.extract_tags and
\* YandexVisionOCR.extract_text_from_image take no state: a second
\* specification calls each of them once on an argument drawn from the sets
\* below, with no run going on.
MaxLen == 3
MaxTitleLength == 10

Alphabet == {"a", "B", " ", ".", "#", "@"}

\* The texts over Alphabet of at most n characters.
RECURSIVE TextsUpTo(_)
TextsUpTo(n) ==
    IF n = 0 THEN {""}
    ELSE LET shorter == TextsUpTo(n - 1)
         IN  shorter \cup {t \o c : t \in shorter, c \in Alphabet}

\* A first sentence of 80 characters, followed by a second sentence.
LongSentence == "The quarterly report shows that revenue grew faster than anyone on the team hope"
LongText == LongSentence \o ". Ok"

Contents ==
    TextsUpTo(MaxLen) \cup SampleTexts
    \cup {LongText, "Send MAIL to Bob", "see  #Auth and #todo_1!", "?!", "Oops.. #a#B"}
MaxLengths == (1..MaxTitleLength) \cup {DefaultMaxLength}

\* Answers with status 200: any of the texts as fullText, any of the block
\* lists as blocks.
FullTexts == {"", " \n", "Hello", " Total: $5 \n"}
BlockLists == {<<>>, << <<"">> >>, << <<"Meeting at 10", "">>, <<" call Bob ">> >>,
               << <<"b1 l1", "b1 l2">>, <<"b2 l1">> >>}
OcrAnswers ==
    OcrResponses
    \cup {[kind |-> "ok", hasAnnotation |-> TRUE, fullText |-> t, blocks |-> b] :
             t \in FullTexts, b \in BlockLists}

Calls ==
    {[fn |-> "generate_title", args |-> <<c, m>>, returned |-> FALSE, result |-> "",
      again |-> <<>>] :
        c \in Contents, m \in MaxLengths}
    \cup {[fn |-> "extract_tags", args |-> <<c>>, returned |-> FALSE, result |-> "",
           again |-> <<>>] :
        c \in Contents}
    \cup {[fn |-> "extract_text_from_image", args |-> <<resp>>, returned |-> FALSE,
           result |-> "", again |-> <<>>] : resp \in OcrAnswers}

FnInit ==
    /\ variant = "yandex"
    /\ clock = 0
    /\ pc = [r \in Runs |-> "idle"]
    /\ req = [r \in Runs |-> NoReq]
    /\ local = [r \in Runs |-> NoLocal]
    /\ log = [r \in Runs |-> <<>>]
    /\ storage = {}
    /\ notes = <<>>
    /\ note_tags = {}
    /\ user_settings = {}
    /\ call \in Calls

generate_title_call ==
    /\ call.fn = "generate_title" /\ ~call.returned
    /\ call' = [call EXCEPT !.returned = TRUE,
                            !.result = generate_title(call.args[1], call.args[2])]
    /\ UNCHANGED <<variant, clock, pc, req, local, log, storage, notes, note_tags, user_settings>>

extract_tags_call ==
    /\ call.fn = "extract_tags" /\ ~call.returned
    /\ call' = [call EXCEPT !.returned = TRUE, !.result = extract_tags(call.args[1])]
    /\ UNCHANGED <<variant, clock, pc, req, local, log, storage, notes, note_tags, user_settings>>

\* A second call of extract_tags with the text of the first.
extract_tags_call_again ==
    /\ call.fn = "extract_tags" /\ call.returned /\ call.again = <<>>
    /\ call' = [call EXCEPT !.again = <<extract_tags(call.args[1])>>]
    /\ UNCHANGED <<variant, clock, pc, req, local, log, storage, notes, note_tags, user_settings>>

extract_text_from_image_call ==
    /\ call.fn = "extract_text_from_image" /\ ~call.returned
    /\ call' = [call EXCEPT !.returned = TRUE,
                            !.result = extract_text_from_image(call.args[1])]
    /\ UNCHANGED <<variant, clock, pc, req, local, log, storage, notes, note_tags, user_settings>>

FnNext ==
    \/ generate_title_call
    \/ extract_tags_call
    \/ extract_tags_call_again
    \/ extract_text_from_image_call

FnSpec == FnInit /\ [][FnNext]_vars

\* ------------------------------------------------------------ the claims
IsMsg(e) == e.k = "msg"
CallIndexes(r, cap) == { i \in 1..Len(log[r]) : log[r][i].k = "call" /\ log[r][i].a = cap }
HasCall(r, cap) == CallIndexes(r, cap) # {}
CallFailed(r, cap) == \E i \in CallIndexes(r, cap) : log[r][i].text = "fail"
CallOk(r, cap) == \E i \in CallIndexes(r, cap) : log[r][i].text = "ok"
MsgsOf(r) == SelectSeq(log[r], IsMsg)
FinalMsg(r) == MsgsOf(r)[Len(MsgsOf(r))]
NotesOf(r) == { i \in 1..Len(notes) : notes[i].run = r }
Capabilities == {"extract", "structure", "upload", "save"}

SuccessTexts ==
    {MsgCreatedPhoto, MsgCreatedPdf, MsgSaved} \cup {get_text(l, "success") : l \in Languages}
NoTextTexts ==
    {MsgNoTextPhoto, MsgNoTextPdf, MsgNoText} \cup {get_text(l, "analysis_failed") : l \in Languages}
UploadErrorTexts == {MsgUploadError} \cup {get_text(l, "upload_failed") : l \in Languages}
SaveErrorTexts ==
    {MsgSaveErrorPhoto, MsgSaveError} \cup {get_text(l, "save_failed") : l \in Languages}
FailureTexts ==
    {MsgNoTextPhoto, MsgNoTextPdf, MsgNoText, MsgProcessingError}
    \cup UploadErrorTexts \cup SaveErrorTexts
    \cup {get_text(l, k) : l \in Languages, k \in {"analysis_failed", "error_processing"}}
EndsInSuccess(r) == pc[r] = "done" /\ FinalMsg(r).text \in SuccessTexts
EndsInFailure(r) ==
    pc[r] = "done" /\ (FinalMsg(r).text \in FailureTexts \/ StartsWith(FinalMsg(r).text, "Error:"))

\* The text the extraction of run r gave: the extracted text, or the content
\* of the analysis result of the AI variant ("" when it has none).
ExtractedBody(r) ==
    IF variant = "openai"
    THEN (IF HasKey(local[r].analysis_result, "content")
             /\ local[r].analysis_result.fields.content.t = "str"
          THEN local[r].analysis_result.fields.content.s ELSE "")
    ELSE local[r].extracted_text

\* The extraction of run r was made and gave an empty text or a failure (the
\* OCR extractor returns its failures as texts that start with "Error:", the
\* Vision extractor as the empty text, the analysis as None).
ExtractionFailed(r) ==
    /\ HasCall(r, "extract")
    /\ CASE variant = "openai" -> ~Truthy(local[r].analysis_result)
         [] variant = "yandex" ->
                local[r].extracted_text = "" \/ StartsWith(local[r].extracted_text, "Error:")
         [] OTHER -> local[r].extracted_text = ""

\* C1: no note in the notes table has an empty content, in any variant.
C1_NoEmptyBody == \A i \in 1..Len(notes) : notes[i].content # ""

\* C2: a run whose extraction gave an empty text or a failure never calls the
\* asset upload or the note save, and ends with a failure result.
C2_FailedExtractionPersistsNothing ==
    \A r \in Runs :
        ExtractionFailed(r) =>
            /\ ~HasCall(r, "upload")
            /\ ~HasCall(r, "save")
            /\ pc[r] = "done" => EndsInFailure(r)

\* C3: an extraction that is empty or only whitespace creates no note, and
\* its run ends with the no-text-found failure.
C3_WhitespaceIsNoText ==
    \A r \in Runs :
        (HasCall(r, "extract") /\ Strip(ExtractedBody(r)) = "") =>
            /\ NotesOf(r) = {}
            /\ pc[r] = "done" => FinalMsg(r).text \in NoTextTexts

\* C4: in a run the asset upload is called only after the extraction was
\* made and succeeded, and the note save only after the upload call returned.
C4_StageOrder ==
    \A r \in Runs :
        /\ \A i \in CallIndexes(r, "upload") :
              \E j \in CallIndexes(r, "extract") : j < i /\ log[r][j].text = "ok"
        /\ \A i \in CallIndexes(r, "save") :
              \E j \in CallIndexes(r, "upload") : j < i

\* C5: after a failed asset upload the note save is not called, the run saves
\* no note, and it ends with the upload-failure message.
C5_UploadFailureStops ==
    \A r \in Runs :
        CallFailed(r, "upload") =>
            /\ ~HasCall(r, "save")
            /\ NotesOf(r) = {}
            /\ pc[r] = "done" => FinalMsg(r).text \in UploadErrorTexts

\* C6: when the note save fails after a successful upload, the status message
\* is edited to the save-error text and the uploaded object stays in the store.
C6_SaveFailureReported ==
    \A r \in Runs :
        (pc[r] = "done" /\ CallOk(r, "upload") /\ CallFailed(r, "save")) =>
            /\ FinalMsg(r).a = "edit"
            /\ FinalMsg(r).text \in SaveErrorTexts
            /\ \E o \in storage : o.name = local[r].filename

\* C7: a run that ends with the success result inserted exactly one note, and
\* a run that ends with a failure result inserted none.
C7_ResultMatchesNote ==
    \A r \in Runs :
        /\ EndsInSuccess(r) => Cardinality(NotesOf(r)) = 1
        /\ EndsInFailure(r) => NotesOf(r) = {}

\* C8: in a run each capability (extraction or analysis, structuring, asset
\* upload, note save) is called at most once, whatever the calls return.
C8_AtMostOnce ==
    \A r \in Runs : \A cap \in Capabilities : Cardinality(CallIndexes(r, cap)) <= 1

\* C8's case: a run has ended after a call of a capability failed.
C8_Witness ==
    \E r \in Runs : pc[r] = "done" /\ (CallFailed(r, "upload") \/ CallFailed(r, "save"))

\* C9: two runs of the same handler whose extractions failed for different
\* causes among expired credentials, network failure and no text found end
\* with different messages.
C9_CausesDistinguished ==
    \A r1 \in Runs, r2 \in Runs :
        ( /\ pc[r1] = "done" /\ pc[r2] = "done"
          /\ req[r1].handler = req[r2].handler
          /\ {local[r1].cause, local[r2].cause} \subseteq {"auth", "network", "no_text"}
          /\ local[r1].cause # local[r2].cause )
        => FinalMsg(r1).text # FinalMsg(r2).text

\* The edits of the status message between the capability call at place i of
\* run r's log and the call before it.
ProgressBefore(r, i) ==
    { j \in 1..(i - 1) :
        /\ log[r][j].k = "msg" /\ log[r][j].a = "edit"
        /\ \A c \in (j + 1)..(i - 1) : log[r][c].k # "call" }

\* The first entry of a run's log is the reply that creates the status
\* message, and every later message that comes before a call is an edit.
ProgressEditsOneMessage(r) ==
    log[r] # <<>> =>
        /\ log[r][1].k = "msg" /\ log[r][1].a = "reply"
        /\ \A j \in 2..Len(log[r]) :
              (log[r][j].k = "msg" /\ \E i \in (j + 1)..Len(log[r]) : log[r][i].k = "call")
              => log[r][j].a = "edit"

StagesWithProgress(v, handler) ==
    CASE v = "openai" -> {"upload", "extract", "save"}
      [] v = "yandex" /\ handler = "photo" -> {"extract", "structure"}
      [] v = "yandex" /\ handler = "document" -> {"extract"}
      [] OTHER -> {}

UnsupportedTexts == {MsgOnlyPdf} \cup {get_text(l, "send_image") : l \in Languages}

\* The attachment of run r is one the program's handlers do not take: a
\* document that is no PDF for the OCR program, anything but a photo for the
\* AI program.
UnsupportedKind(r) ==
    \/ variant = "yandex" /\ req[r].handler = "document" /\ req[r].mime # "application/pdf"
    \/ variant = "openai" /\ req[r].handler # "photo"

\* The handlers that take an attachment.
AttachmentHandlers == {"photo", "document", "other"}

\* C11: for an attachment without bytes or of an unsupported kind no
\* capability is called, and the run ends with the unsupported-media message.
C11_UnsupportedRejected ==
    \A r \in Runs :
        (req[r].handler \in AttachmentHandlers /\ (req[r].data = 0 \/ UnsupportedKind(r))) =>
            /\ \A cap \in Capabilities : ~HasCall(r, cap)
            /\ pc[r] = "done" => FinalMsg(r).text \in UnsupportedTexts

\* C12: two runs that made a file name for their upload made different names.
C12_DistinctKeys ==
    \A r1 \in Runs, r2 \in Runs :
        (r1 # r2 /\ HasCall(r1, "upload") /\ HasCall(r2, "upload")) =>
            local[r1].filename # local[r2].filename

\* C13: every note of the notes table has a non-empty title.
C13_TitleNonEmpty == \A i \in 1..Len(notes) : notes[i].title # ""

\* The call has returned from function fn.
Returned(fn) == call.fn = fn /\ call.returned

\* The content is one generate_title and extract_tags take as a text to
\* structure: not empty, not an error text of the extractor.
Accepted(content) == content # "" /\ ~StartsWith(content, "Error:")

\* C14: for an accepted content and any max_length, generate_title returns a
\* non-empty title of at most max_length characters.
C14_TitleWithinBound ==
    (Returned("generate_title") /\ Accepted(call.args[1])) =>
        /\ call.result # ""
        /\ Len(call.result) <= call.args[2]

\* The text of s from its last n characters on.
Suffix(s, n) == IF Len(s) < n THEN s ELSE SubSeq(s, Len(s) - n + 1, Len(s))

\* C15: when the first sentence of an accepted content is longer than
\* max_length, the title has exactly max_length characters and ends in "...".
C15_TruncatedToBound ==
    ( /\ Returned("generate_title") /\ Accepted(call.args[1])
      /\ Len(FirstSentence(call.args[1])) > call.args[2] ) =>
        /\ Len(call.result) = call.args[2]
        /\ Suffix(call.result, 3) = "..."

\* C16: the tags of every note (the tags column of the heuristic programs,
\* the note_tags rows of the AI program) are non-empty and lowercase, and no
\* two tags of a note are equal up to case.
C16_TagsNormalised ==
    /\ \A i \in 1..Len(notes) : \A t \in notes[i].tags : t # "" /\ ToLower(t) = t
    /\ \A row \in note_tags : row.tag # "" /\ ToLower(row.tag) = row.tag
    /\ \A row1 \in note_tags, row2 \in note_tags :
          (row1.note_id = row2.note_id /\ ToLower(row1.tag) = ToLower(row2.tag))
          => row1.tag = row2.tag

\* The characters i+1..j of content are a hashtag's word: a '#' at i, word
\* characters up to j, and no word character after j.
IsHashtagAt(content, i, j) ==
    /\ i < j
    /\ CharAt(content, i) = "#"
    /\ \A k \in (i + 1)..j : IsWordChar(CharAt(content, k))
    /\ j = Len(content) \/ ~IsWordChar(CharAt(content, j + 1))

\* C17: for an accepted text, extract_tags returns every hashtag of the text,
\* lowercased and without its '#', together with the matched categories.
C17_HashtagsIncluded ==
    (Returned("extract_tags") /\ Accepted(call.args[1])) =>
        LET content == call.args[1]
        IN  /\ \A i \in 1..Len(content), j \in 1..Len(content) :
                  IsHashtagAt(content, i, j) =>
                      ToLower(SubSeq(content, i + 1, j)) \in call.result
            /\ MatchedTags(tag_patterns, ToLower(content)) \subseteq call.result

\* C17's case: the tags of a text with the hashtags #Auth and #todo_1.
C17_Witness ==
    /\ Returned("extract_tags")
    /\ call.args[1] = "see  #Auth and #todo_1!"
    /\ {"auth", "todo_1"} \subseteq call.result

\* The keyword p occurs in content, letters compared without regard to case.
OccursIgnoringCase(content, p) ==
    \E i \in 1..(Len(content) - Len(p) + 1) :
        ToLower(SubSeq(content, i, i + Len(p) - 1)) = ToLower(p)

\* C18: for an accepted text, extract_tags returns every category one of
\* whose keywords occurs in the text without regard to case, and every tag it
\* returns is such a category or a lowercased hashtag of the text.
C18_CategoriesByKeyword ==
    (Returned("extract_tags") /\ Accepted(call.args[1])) =>
        LET content == call.args[1]
            Matched(k) == \E p \in tag_patterns[k].patterns : OccursIgnoringCase(content, p)
        IN  /\ \A k \in 1..Len(tag_patterns) :
                  Matched(k) => tag_patterns[k].tag \in call.result
            /\ \A t \in call.result :
                  \/ \E k \in 1..Len(tag_patterns) : tag_patterns[k].tag = t /\ Matched(k)
                  \/ \E i \in 1..Len(content), j \in 1..Len(content) :
                        IsHashtagAt(content, i, j) /\ t = ToLower(SubSeq(content, i + 1, j))

\* C18's case: a keyword written in capitals gives its category.
C18_Witness ==
    /\ Returned("extract_tags")
    /\ call.args[1] = "Send MAIL to Bob"
    /\ call.result = {"email"}

\* C19: for an answer with a textAnnotation, extract_text_from_image returns
\* the fullText when it holds text, and otherwise (fullText absent, empty or
\* without usable text) the lines of the blocks, in block order then line
\* order.
C19_FullTextThenBlocks ==
    ( /\ Returned("extract_text_from_image")
      /\ call.args[1].kind = "ok" /\ call.args[1].hasAnnotation ) =>
        LET resp == call.args[1]
        IN  call.result = IF Strip(resp.fullText) # ""
                          THEN Strip(resp.fullText)
                          ELSE Strip(Join("\n", BlockLines(resp.blocks)))

\* The text is one of the JSON documents.
IsJsonText(text) == \E i \in 1..Len(JsonDocuments) : JsonDocuments[i].text = text

\* The text wrapped in a fenced code block, with or without the language tag.
FencedForms(text) ==
    {FenceJson \o "\n" \o text \o "\n" \o Fence,
     Fence \o "\n" \o text \o "\n" \o Fence,
     Fence \o "\n" \o text \o "\n" \o Fence \o "\n"}

\* C20: in the AI program a reply that is a JSON document in a fenced code
\* block is parsed to that document's value; a reply that is no JSON document,
\* fenced or not, ends the run with the analysis failure, without a save and
\* without a note.
C20_FenceStrippedInvalidFails ==
    \A r \in Runs :
        (variant = "openai" /\ HasCall(r, "extract")
         /\ local[r].cause \notin {"auth", "network"}) =>
            LET reply == local[r].reply
                Fenced(i) == reply \in FencedForms(JsonDocuments[i].text)
            IN  /\ \A i \in 1..Len(JsonDocuments) :
                      Fenced(i) => local[r].analysis_result = JsonDocuments[i].value
                /\ (~IsJsonText(Strip(reply)) /\ \A i \in 1..Len(JsonDocuments) : ~Fenced(i)) =>
                      /\ local[r].analysis_result = JNull
                      /\ ~HasCall(r, "save")
                      /\ NotesOf(r) = {}
                      /\ pc[r] = "done"
                      /\ FinalMsg(r).text = get_text(local[r].user_lang, "analysis_failed")

\* C20's case: one run saved the note of a fenced reply, another run ended
\* with the analysis failure for a reply that is no JSON.
C20_Witness ==
    \E r1 \in Runs, r2 \in Runs :
        /\ variant = "openai"
        /\ local[r1].reply \in FencedForms(JsonDocuments[1].text)
        /\ EndsInSuccess(r1) /\ Cardinality(NotesOf(r1)) = 1
        /\ local[r2].reply = "Sorry, I cannot read this image."
        /\ pc[r2] = "done" /\ NotesOf(r2) = {}

\* C21: in the AI program no note has more than 3 tags in note_tags.
C21_AtMostThreeTags ==
    variant = "openai" =>
        \A i \in 1..Len(notes) : Cardinality(get_note_tags(notes[i].id)) <= MaxTags

\* The bytes the extraction of run r worked on, from what its call was given:
\* the base64 text of the OCR request, the image of the Vision request, the
\* data URL of the completion request.
ExtractionBytes(arg) ==
    CASE variant = "yandex" -> b64decode(arg)
      [] variant = "openai" -> b64decode(SliceFrom(arg, Len(DataUrlPrefix)))
      [] OTHER -> arg

\* C22: in a run the bytes given to the upload are the bytes the extraction
\* worked on, they are the bytes of the downloaded file, and the object the
\* note's asset URL names holds exactly them.
C22_SameBytes ==
    \A r \in Runs :
        /\ \A i \in CallIndexes(r, "extract") :
              /\ ExtractionBytes(log[r][i].args[1]) = Downloaded(r)
              /\ \A j \in CallIndexes(r, "upload") :
                    log[r][j].args[2] = ExtractionBytes(log[r][i].args[1])
        /\ \A n \in NotesOf(r) :
              notes[n].image_url # None =>
                  \E o \in storage :
                      /\ PublicUrl(o.name) = notes[n].image_url
                      /\ \A i \in CallIndexes(r, "extract") :
                            o.data = ExtractionBytes(log[r][i].args[1])

\* C22's case: a run whose file has more bytes than one base64 group extracted,
\* uploaded and saved a note with an asset URL.
C22_Witness ==
    \E r \in Runs :
        /\ variant \in {"yandex", "openai"}
        /\ Len(Downloaded(r)) > 3
        /\ CallOk(r, "extract") /\ CallOk(r, "upload")
        /\ \E n \in NotesOf(r) : notes[n].image_url # None

\* The title, tags, content and asset URL run r computed and reported with
\* its success message.
Reported(r) ==
    IF variant = "openai"
    THEN LET a == local[r].analysis_result.fields
         IN  [title |-> FinalMsg(r).args[1],
              tags |-> {a.tags.items[i].s : i \in 1..Len(a.tags.items)},
              content |-> a.content.s,
              image_url |-> FinalMsg(r).args[4]]
    ELSE [title |-> FinalMsg(r).args[1], tags |-> FinalMsg(r).args[2],
          content |-> local[r].extracted_text, image_url |-> local[r].image_url]

\* Run r is a listing that got an answer from the database.
Listed(r) == req[r].handler \in {"recent", "list"} /\ pc[r] = "done" /\ local[r].cause = ""

\* C23: a listing shows every note of its user saved before it (up to the
\* limit), and a listed note of a run that ended with the success result has
\* the title, tags, content and asset URL the run reported.
C23_ListedAsReported ==
    \A l \in Runs :
        Listed(l) =>
            LET rows == local[l].listed
            IN  /\ \A n \in 1..local[l].seen :
                      (notes[n].user_id = req[l].user_id /\ local[l].seen <= ListLimit) =>
                          \E k \in 1..Len(rows) : rows[k].id = notes[n].id
                /\ \A k \in 1..Len(rows) :
                      /\ rows[k].user_id = req[l].user_id
                      /\ EndsInSuccess(rows[k].run) =>
                            LET rep == Reported(rows[k].run)
                            IN  /\ rows[k].title = rep.title
                                /\ rows[k].tags = rep.tags
                                /\ rows[k].content = rep.content
                                /\ rows[k].image_url = rep.image_url

\* C24: under every interleaving, a note has the user of its run, the body of
\* the run's own extraction and the title and tags the run made of it (the
\* structuring was given the run's own text); its asset URL, when it has one,
\* names the object the run stored; every stored object holds the bytes of
\* each run that uploaded to its name; and each extraction was given the
\* bytes of its own run.
C24_RunsIsolated ==
    /\ \A r \in Runs : \A n \in NotesOf(r) :
          /\ notes[n].user_id = req[r].user_id
          /\ notes[n].content = ExtractedBody(r)
          /\ IF variant = "openai"
             THEN /\ notes[n].title = local[r].analysis_result.fields.title.s
                  /\ \A t \in get_note_tags(notes[n].id) :
                        \E i \in 1..Len(GetTags(local[r].analysis_result).items) :
                            t = Strip(GetTags(local[r].analysis_result).items[i].s)
             ELSE /\ notes[n].title = local[r].title
                  /\ notes[n].tags = local[r].tags
                  /\ \A i \in CallIndexes(r, "structure") :
                        log[r][i].args[1] = local[r].extracted_text
          /\ notes[n].image_url # None =>
                /\ CallOk(r, "upload")
                /\ notes[n].image_url = PublicUrl(local[r].filename)
    /\ \A o \in storage : \A r \in Runs :
          (CallOk(r, "upload") /\ local[r].filename = o.name) => o.data = Downloaded(r)
    /\ \A r \in Runs : \A i \in CallIndexes(r, "extract") :
          ExtractionBytes(log[r][i].args[1]) = Downloaded(r)

\* C24's case: two runs of one user with different files and different texts
\* went on at the same time, the second saving its note before the first.
C24_Witness ==
    /\ Len(notes) = 2
    /\ notes[1].run = 2 /\ notes[2].run = 1
    /\ req[1].user_id = req[2].user_id
    /\ req[1].data # req[2].data
    /\ local[1].extracted_text # local[2].extracted_text
    /\ notes[1].image_url # None

\* C25: the title of every note has at most 100 characters.
C25_TitleAtMost100 == \A i \in 1..Len(notes) : Len(notes[i].title) <= MaxTitleChars

C27_TextIsNeverFailure ==
    \A r \in Runs :
        ( /\ variant = "yandex" /\ HasCall(r, "extract")
          /\ local[r].ocr_kind = "ok" /\ local[r].extracted_text # "" ) =>
            /\ CallOk(r, "extract")
            /\ HasCall(r, "structure")
            /\ pc[r] = "done" => HasCall(r, "save")

\* Run r is a language command that has answered.
LanguageSet(r) == req[r].handler = "lang" /\ pc[r] = "done"

\* No later language command of the user of run r has begun.
LastCommandOfUser(r) ==
    \A q \in Runs : (q > r /\ req[q].handler = "lang") => req[q].user_id # req[r].user_id

\* C28: in the AI program a language command that has confirmed language L,
\* with no later command of its user, has stored L as the user's language, and
\* a command whose storing failed has not confirmed.
C28_ConfirmedIsStored ==
    \A r \in Runs :
        (LanguageSet(r) /\ FinalMsg(r).text = get_text(local[r].language, "language_changed")) =>
            /\ local[r].set_ok
            /\ LastCommandOfUser(r) => get_user_language(req[r].user_id) = local[r].language

\* C29: when the calls of set_user_language have returned, every user has at
\* most one row, every call that reached the database returned success, and
\* the language of a user with calls is the language of one of them.
C29_ConcurrentSetLanguage ==
    (\A r \in Runs : LanguageSet(r)) =>
        /\ \A u \in Users : Cardinality({row \in user_settings : row.user_id = u}) <= 1
        /\ \A r \in Runs : local[r].cause # "db" => local[r].set_ok
        /\ \A u \in Users :
              (\E r \in Runs : req[r].user_id = u /\ local[r].set_ok) =>
                  \E r \in Runs : /\ req[r].user_id = u /\ local[r].set_ok
                                   /\ get_user_language(u) = local[r].language

\* C30: in the Vision program a document with an image MIME type goes
\* through the pipeline of a photo (its text is extracted, and when the
\* extraction, the upload and the save succeed the run ends with the success
\* result and one note), and another document never reaches the extractor.
C30_ImageDocumentAsPhoto ==
    \A r \in Runs :
        (variant = "google" /\ req[r].handler = "document" /\ pc[r] = "done") =>
            IF StartsWith(req[r].mime, "image/")
            THEN /\ HasCall(r, "extract")
                 /\ (CallOk(r, "extract") /\ CallOk(r, "upload") /\ CallOk(r, "save")) =>
                       (EndsInSuccess(r) /\ Cardinality(NotesOf(r)) = 1)
            ELSE ~HasCall(r, "extract")

====
